---- MODULE Spec2Model ----
(***************************************************************************)
(* String case converters (src/src/string/converters.ts): nine case        *)
(* styles, a tokenizer and a formatter per style, the 81 converters built  *)
(* by createConverter and registered under generated names, and the        *)
(* exported <style>ToWords / wordsTo<Style> functions.                     *)
(*                                                                         *)
(* A JavaScript string is modelled as a sequence of one-character strings, *)
(* a string[] as a sequence of such sequences.  A value that crosses the   *)
(* public surface is a record [t, v]: t is "string", "array", "null",      *)
(* "undefined", or "throw" for a raised TypeError.                         *)
(***************************************************************************)
EXTENDS Integers, Sequences, FiniteSets, TLC

VARIABLES pc, fn, arg, ret

vars == <<pc, fn, arg, ret>>

----------------------------------------------------------------------------
(* Bounds of the checked input space.                                      *)

MaxLen == 3

MaxAlnumLen == 5

MaxTokLen == 2

MaxToks == 3

----------------------------------------------------------------------------
(* JavaScript values and string primitives.                                *)

Null == [t |-> "null", v |-> <<>>]

Undefined == [t |-> "undefined", v |-> <<>>]

TypeError == [t |-> "throw", v |-> <<>>]

StringVal(s) == [t |-> "string", v |-> s]

ArrayVal(a) == [t |-> "array", v |-> a]

isNullish(x) == x.t \in {"null", "undefined"}

Lowers ==
  << "a","b","c","d","e","f","g","h","i","j","k","l","m",
     "n","o","p","q","r","s","t","u","v","w","x","y","z" >>

Uppers ==
  << "A","B","C","D","E","F","G","H","I","J","K","L","M",
     "N","O","P","Q","R","S","T","U","V","W","X","Y","Z" >>

Digits == {"0","1","2","3","4","5","6","7","8","9"}

\* the members of the regex class \s that the input alphabet draws from
Whitespace == {" ", "\t", "\n"}

isLower(c) == \E i \in DOMAIN Lowers : Lowers[i] = c

isUpper(c) == \E i \in DOMAIN Uppers : Uppers[i] = c

isDigit(c) == c \in Digits

toUpperCaseChar(c) ==
  IF isLower(c) THEN Uppers[CHOOSE i \in DOMAIN Lowers : Lowers[i] = c] ELSE c

toLowerCaseChar(c) ==
  IF isUpper(c) THEN Lowers[CHOOSE i \in DOMAIN Uppers : Uppers[i] = c] ELSE c

toUpperCase(s) == [i \in 1..Len(s) |-> toUpperCaseChar(s[i])]

toLowerCase(s) == [i \in 1..Len(s) |-> toLowerCaseChar(s[i])]

\* word.charAt(0): the empty string when the word is empty
charAt0(s) == IF Len(s) = 0 THEN <<>> ELSE <<s[1]>>

\* word.slice(1)
slice1(s) == IF Len(s) = 0 THEN <<>> ELSE Tail(s)

\* str.split(separator) for a one-character separator or a one-character
\* class: every occurrence cuts, empty fragments are kept, "" gives [""]
RECURSIVE splitFrom(_, _, _, _)
splitFrom(s, seps, i, cur) ==
  IF i > Len(s) THEN <<cur>>
  ELSE IF s[i] \in seps THEN <<cur>> \o splitFrom(s, seps, i + 1, <<>>)
  ELSE splitFrom(s, seps, i + 1, Append(cur, s[i]))

split(s, seps) == splitFrom(s, seps, 1, <<>>)

\* tokens.join(sep)
RECURSIVE join(_, _)
join(tokens, sep) ==
  IF Len(tokens) = 0 THEN <<>>
  ELSE IF Len(tokens) = 1 THEN tokens[1]
  ELSE tokens[1] \o sep \o join(Tail(tokens), sep)

\* str.replace(/([a-z0-9])([A-Z])/g, "$1 $2"): matches are found left to
\* right and do not overlap
RECURSIVE replaceLowerUpper(_, _)
replaceLowerUpper(s, i) ==
  IF i > Len(s) THEN <<>>
  ELSE IF /\ i + 1 <= Len(s)
          /\ (isLower(s[i]) \/ isDigit(s[i]))
          /\ isUpper(s[i + 1])
       THEN <<s[i], " ", s[i + 1]>> \o replaceLowerUpper(s, i + 2)
       ELSE <<s[i]>> \o replaceLowerUpper(s, i + 1)

\* str.replace(/([A-Z])([A-Z][a-z])/g, "$1 $2")
RECURSIVE replaceUpperUpperLower(_, _)
replaceUpperUpperLower(s, i) ==
  IF i > Len(s) THEN <<>>
  ELSE IF /\ i + 2 <= Len(s)
          /\ isUpper(s[i])
          /\ isUpper(s[i + 1])
          /\ isLower(s[i + 2])
       THEN <<s[i], " ", s[i + 1], s[i + 2]>> \o replaceUpperUpperLower(s, i + 3)
       ELSE <<s[i]>> \o replaceUpperUpperLower(s, i + 1)

mapToLowerCase(tokens) == [k \in 1..Len(tokens) |-> toLowerCase(tokens[k])]

----------------------------------------------------------------------------
(* The utilities of converters.ts.                                         *)

safeString(input) == IF isNullish(input) THEN <<>> ELSE input.v

\* the first replace with the class [a-z] in place of [a-z0-9]
RECURSIVE replaceLetterUpper(_, _)
replaceLetterUpper(s, i) ==
  IF i > Len(s) THEN <<>>
  ELSE IF i + 1 <= Len(s) /\ isLower(s[i]) /\ isUpper(s[i + 1])
       THEN <<s[i], " ", s[i + 1]>> \o replaceLetterUpper(s, i + 2)
       ELSE <<s[i]>> \o replaceLetterUpper(s, i + 1)

\* tokenizeCamelPascal cutting after a lowercase letter but not after a digit
tokenizeCamelPascalLettersOnly(str) ==
  mapToLowerCase(
    split(replaceUpperUpperLower(replaceLetterUpper(str, 1), 1), Whitespace))

\* tokenizeCamelPascal without its second replace, the acronym rule
tokenizeCamelPascalOneRule(str) ==
  mapToLowerCase(split(replaceLowerUpper(str, 1), Whitespace))

tokenizeCamelPascal(str) ==
  mapToLowerCase(
    split(replaceUpperUpperLower(replaceLowerUpper(str, 1), 1), Whitespace))

\* tokenizeSeparator dropping the empty fragments, as .filter(Boolean) would
tokenizeSeparatorDropEmpty(str, separator) ==
  SelectSeq(mapToLowerCase(split(str, {separator})), LAMBDA w : Len(w) > 0)

tokenizeSeparator(str, separator) == mapToLowerCase(split(str, {separator}))

\* tokenizeFlat splitting on "_" like its neighbours in the table
tokenizeFlatSplitting(str) == mapToLowerCase(split(str, {"_"}))

\* tokenizeFlat returning no token for the empty string
tokenizeFlatEmptyToNone(str) == IF Len(str) = 0 THEN <<>> ELSE <<toLowerCase(str)>>

tokenizeFlat(str) == <<toLowerCase(str)>>

capitalizeWord(word) == toUpperCase(charAt0(word)) \o slice1(word)

toCamel(tokens) ==
  join([idx \in 1..Len(tokens) |->
          IF idx = 1 THEN tokens[idx] ELSE capitalizeWord(tokens[idx])], <<>>)

toPascal(tokens) ==
  join([idx \in 1..Len(tokens) |-> capitalizeWord(tokens[idx])], <<>>)

\* toSnake ending every token, the last one too, with the separator
toSnakeTrailing(tokens) ==
  join([k \in 1..Len(tokens) |-> tokens[k] \o <<"_">>], <<>>)

toSnake(tokens) == join(tokens, <<"_">>)

toScreamingSnake(tokens) == toUpperCase(join(tokens, <<"_">>))

toKebab(tokens) == join(tokens, <<"-">>)

toDot(tokens) == join(tokens, <<".">>)

toPath(tokens) == join(tokens, <<"/">>)

toUpper(tokens) == toUpperCase(join(tokens, <<>>))

toLower(tokens) == toLowerCase(join(tokens, <<>>))

----------------------------------------------------------------------------
(* The case styles, and the two tables keyed by them.                      *)

camel == <<"c","a","m","e","l">>

pascal == <<"p","a","s","c","a","l">>

snake == <<"s","n","a","k","e">>

screaming == <<"s","c","r","e","a","m","i","n","g">>

kebab == <<"k","e","b","a","b">>

dot == <<"d","o","t">>

path == <<"p","a","t","h">>

upper == <<"u","p","p","e","r">>

lower == <<"l","o","w","e","r">>

cases == <<camel, pascal, snake, screaming, kebab, dot, path, upper, lower>>

CaseType == {cases[i] : i \in DOMAIN cases}

tokenizeByCase(caseType, str) ==
  CASE caseType = camel -> tokenizeCamelPascal(str)
    [] caseType = pascal -> tokenizeCamelPascal(str)
    [] caseType = snake -> tokenizeSeparator(str, "_")
    [] caseType = screaming -> tokenizeSeparator(toLowerCase(str), "_")
    [] caseType = kebab -> tokenizeSeparator(str, "-")
    [] caseType = dot -> tokenizeSeparator(str, ".")
    [] caseType = path -> tokenizeSeparator(str, "/")
    [] caseType = upper -> tokenizeFlat(str)
    [] caseType = lower -> tokenizeFlat(str)

formatByCase(caseType, tokens) ==
  CASE caseType = camel -> toCamel(tokens)
    [] caseType = pascal -> toPascal(tokens)
    [] caseType = snake -> toSnake(tokens)
    [] caseType = screaming -> toScreamingSnake(tokens)
    [] caseType = kebab -> toKebab(tokens)
    [] caseType = dot -> toDot(tokens)
    [] caseType = path -> toPath(tokens)
    [] caseType = upper -> toUpper(tokens)
    [] caseType = lower -> toLower(tokens)

tokenize(input, caseType) == tokenizeByCase(caseType, input)

format(tokens, caseType) == formatByCase(caseType, tokens)

----------------------------------------------------------------------------
(* The converter factory and the registry of generated names.              *)

\* createConverter without the fromCase === toCase fast path
createConverterAlwaysConverts(fromCase, toCase, input) ==
  LET str == safeString(input) IN
  IF Len(str) = 0 THEN StringVal(<<>>)
  ELSE StringVal(format(tokenize(str, fromCase), toCase))

\* createConverter using input as it comes, with neither safeString nor
\* the empty check: str.replace / str.split on null or undefined raises
createConverterUnnormalized(fromCase, toCase, input) ==
  IF fromCase = toCase THEN input
  ELSE IF isNullish(input) THEN TypeError
  ELSE StringVal(format(tokenize(input.v, fromCase), toCase))

\* the function createConverter(fromCase, toCase) returns, applied to input
createConverter(fromCase, toCase, input) ==
  LET str == safeString(input) IN
  IF Len(str) = 0 THEN StringVal(<<>>)
  ELSE IF fromCase = toCase THEN StringVal(str)
  ELSE StringVal(format(tokenize(str, fromCase), toCase))

\* fnName without capitalizing the target style
fnNameUncapitalized(from, to) == from \o <<"T", "o">> \o to

fnName(from, to) ==
  from \o <<"T", "o">> \o toUpperCase(charAt0(to)) \o slice1(to)

\* the two nested forEach loops, k counting their iterations; a later
\* assignment to a key replaces an earlier one
RECURSIVE registered(_)
registered(k) ==
  IF k = 0 THEN [n \in {} |-> <<>>]
  ELSE LET from == cases[((k - 1) \div Len(cases)) + 1]
           to == cases[((k - 1) % Len(cases)) + 1]
       IN (fnName(from, to) :> <<from, to>>) @@ registered(k - 1)

converters == registered(Len(cases) * Len(cases))

exportedConverters ==
  { <<"c","a","m","e","l","T","o","P","a","s","c","a","l">>,
     <<"c","a","m","e","l","T","o","S","n","a","k","e">>,
     <<"c","a","m","e","l","T","o","S","c","r","e","a","m","i","n","g">>,
     <<"c","a","m","e","l","T","o","K","e","b","a","b">>,
     <<"c","a","m","e","l","T","o","D","o","t">>,
     <<"c","a","m","e","l","T","o","P","a","t","h">>,
     <<"c","a","m","e","l","T","o","U","p","p","e","r">>,
     <<"c","a","m","e","l","T","o","L","o","w","e","r">>,
     <<"c","a","m","e","l","T","o","C","a","m","e","l">>,
     <<"p","a","s","c","a","l","T","o","C","a","m","e","l">>,
     <<"p","a","s","c","a","l","T","o","S","n","a","k","e">>,
     <<"p","a","s","c","a","l","T","o","S","c","r","e","a","m","i","n","g">>,
     <<"p","a","s","c","a","l","T","o","K","e","b","a","b">>,
     <<"p","a","s","c","a","l","T","o","D","o","t">>,
     <<"p","a","s","c","a","l","T","o","P","a","t","h">>,
     <<"p","a","s","c","a","l","T","o","U","p","p","e","r">>,
     <<"p","a","s","c","a","l","T","o","L","o","w","e","r">>,
     <<"p","a","s","c","a","l","T","o","P","a","s","c","a","l">>,
     <<"s","n","a","k","e","T","o","C","a","m","e","l">>,
     <<"s","n","a","k","e","T","o","P","a","s","c","a","l">>,
     <<"s","n","a","k","e","T","o","S","c","r","e","a","m","i","n","g">>,
     <<"s","n","a","k","e","T","o","K","e","b","a","b">>,
     <<"s","n","a","k","e","T","o","D","o","t">>,
     <<"s","n","a","k","e","T","o","P","a","t","h">>,
     <<"s","n","a","k","e","T","o","U","p","p","e","r">>,
     <<"s","n","a","k","e","T","o","L","o","w","e","r">>,
     <<"s","n","a","k","e","T","o","S","n","a","k","e">>,
     <<"s","c","r","e","a","m","i","n","g","T","o","C","a","m","e","l">>,
     <<"s","c","r","e","a","m","i","n","g","T","o","P","a","s","c","a","l">>,
     <<"s","c","r","e","a","m","i","n","g","T","o","S","n","a","k","e">>,
     <<"s","c","r","e","a","m","i","n","g","T","o","K","e","b","a","b">>,
     <<"s","c","r","e","a","m","i","n","g","T","o","D","o","t">>,
     <<"s","c","r","e","a","m","i","n","g","T","o","P","a","t","h">>,
     <<"s","c","r","e","a","m","i","n","g","T","o","U","p","p","e","r">>,
     <<"s","c","r","e","a","m","i","n","g","T","o","L","o","w","e","r">>,
     <<"s","c","r","e","a","m","i","n","g","T","o","S","c","r","e","a","m","i","n","g">>,
     <<"k","e","b","a","b","T","o","C","a","m","e","l">>,
     <<"k","e","b","a","b","T","o","P","a","s","c","a","l">>,
     <<"k","e","b","a","b","T","o","S","n","a","k","e">>,
     <<"k","e","b","a","b","T","o","S","c","r","e","a","m","i","n","g">>,
     <<"k","e","b","a","b","T","o","D","o","t">>,
     <<"k","e","b","a","b","T","o","P","a","t","h">>,
     <<"k","e","b","a","b","T","o","U","p","p","e","r">>,
     <<"k","e","b","a","b","T","o","L","o","w","e","r">>,
     <<"k","e","b","a","b","T","o","K","e","b","a","b">>,
     <<"d","o","t","T","o","C","a","m","e","l">>,
     <<"d","o","t","T","o","P","a","s","c","a","l">>,
     <<"d","o","t","T","o","S","n","a","k","e">>,
     <<"d","o","t","T","o","S","c","r","e","a","m","i","n","g">>,
     <<"d","o","t","T","o","K","e","b","a","b">>,
     <<"d","o","t","T","o","P","a","t","h">>,
     <<"d","o","t","T","o","U","p","p","e","r">>,
     <<"d","o","t","T","o","L","o","w","e","r">>,
     <<"d","o","t","T","o","D","o","t">>,
     <<"p","a","t","h","T","o","C","a","m","e","l">>,
     <<"p","a","t","h","T","o","P","a","s","c","a","l">>,
     <<"p","a","t","h","T","o","S","n","a","k","e">>,
     <<"p","a","t","h","T","o","S","c","r","e","a","m","i","n","g">>,
     <<"p","a","t","h","T","o","K","e","b","a","b">>,
     <<"p","a","t","h","T","o","D","o","t">>,
     <<"p","a","t","h","T","o","U","p","p","e","r">>,
     <<"p","a","t","h","T","o","L","o","w","e","r">>,
     <<"p","a","t","h","T","o","P","a","t","h">>,
     <<"u","p","p","e","r","T","o","C","a","m","e","l">>,
     <<"u","p","p","e","r","T","o","P","a","s","c","a","l">>,
     <<"u","p","p","e","r","T","o","S","n","a","k","e">>,
     <<"u","p","p","e","r","T","o","S","c","r","e","a","m","i","n","g">>,
     <<"u","p","p","e","r","T","o","K","e","b","a","b">>,
     <<"u","p","p","e","r","T","o","D","o","t">>,
     <<"u","p","p","e","r","T","o","P","a","t","h">>,
     <<"u","p","p","e","r","T","o","L","o","w","e","r">>,
     <<"u","p","p","e","r","T","o","U","p","p","e","r">>,
     <<"l","o","w","e","r","T","o","C","a","m","e","l">>,
     <<"l","o","w","e","r","T","o","P","a","s","c","a","l">>,
     <<"l","o","w","e","r","T","o","S","n","a","k","e">>,
     <<"l","o","w","e","r","T","o","S","c","r","e","a","m","i","n","g">>,
     <<"l","o","w","e","r","T","o","K","e","b","a","b">>,
     <<"l","o","w","e","r","T","o","D","o","t">>,
     <<"l","o","w","e","r","T","o","P","a","t","h">>,
     <<"l","o","w","e","r","T","o","U","p","p","e","r">>,
     <<"l","o","w","e","r","T","o","L","o","w","e","r">> }

\* a call of the export destructured from converters under that name
callConverter(name, input) ==
  IF name \notin DOMAIN converters THEN TypeError
  ELSE createConverter(converters[name][1], converters[name][2], input)

----------------------------------------------------------------------------
(* The word-level exports.                                                 *)

camelToWords(input) == tokenizeCamelPascal(safeString(input))

pascalToWords(input) == tokenizeCamelPascal(safeString(input))

snakeToWords(input) == tokenizeSeparator(safeString(input), "_")

screamingToWords(input) == tokenizeSeparator(toLowerCase(safeString(input)), "_")

kebabToWords(input) == tokenizeSeparator(safeString(input), "-")

dotToWords(input) == tokenizeSeparator(safeString(input), ".")

pathToWords(input) == tokenizeSeparator(safeString(input), "/")

upperToWords(input) == tokenizeFlat(safeString(input))

lowerToWords(input) == tokenizeFlat(safeString(input))

\* a call of the export <style>ToWords
callToWords(style, input) ==
  ArrayVal(CASE style = camel -> camelToWords(input)
             [] style = pascal -> pascalToWords(input)
             [] style = snake -> snakeToWords(input)
             [] style = screaming -> screamingToWords(input)
             [] style = kebab -> kebabToWords(input)
             [] style = dot -> dotToWords(input)
             [] style = path -> pathToWords(input)
             [] style = upper -> upperToWords(input)
             [] style = lower -> lowerToWords(input))

\* a call of the export wordsTo<Style>, which is the formatter itself:
\* tokens.map / tokens.join on null or undefined raises a TypeError
callWordsTo(style, tokens) ==
  IF isNullish(tokens) THEN TypeError
  ELSE StringVal(CASE style = camel -> toCamel(tokens.v)
                   [] style = pascal -> toPascal(tokens.v)
                   [] style = snake -> toSnake(tokens.v)
                   [] style = screaming -> toScreamingSnake(tokens.v)
                   [] style = kebab -> toKebab(tokens.v)
                   [] style = dot -> toDot(tokens.v)
                   [] style = path -> toPath(tokens.v)
                   [] style = upper -> toUpper(tokens.v)
                   [] style = lower -> toLower(tokens.v))

----------------------------------------------------------------------------
(* The caller: one call of one export at a time; calls share no state.     *)

Chars == {"a", "A", "1", "_", "-", ".", "/", " "}

AlnumChars == {"a", "b", "A", "B", "1"}

TokChars == {"a", "1"}

Strings(C, n) == UNION {[1..k -> C] : k \in 0..n}

Inputs == {Null, Undefined} \cup {StringVal(s) : s \in Strings(Chars, MaxLen)}

AlnumInputs == {StringVal(s) : s \in Strings(AlnumChars, MaxAlnumLen)}

TokenArrays ==
  {Null, Undefined} \cup
  {ArrayVal(a) : a \in UNION {[1..k -> Strings(TokChars, MaxTokLen)] : k \in 0..MaxToks}}

NoCall == [kind |-> "none", name |-> <<>>]

Init ==
  /\ pc = "ready"
  /\ fn = NoCall
  /\ arg = Undefined
  /\ ret = Undefined

CallConverter ==
  /\ pc = "ready"
  /\ \E name \in exportedConverters, input \in Inputs :
       /\ fn' = [kind |-> "converter", name |-> name]
       /\ arg' = input
       /\ ret' = callConverter(name, input)
  /\ pc' = "returned"

CallToWords ==
  /\ pc = "ready"
  /\ \E style \in CaseType, input \in Inputs :
       /\ fn' = [kind |-> "toWords", name |-> style]
       /\ arg' = input
       /\ ret' = callToWords(style, input)
  /\ pc' = "returned"

CallWordsTo ==
  /\ pc = "ready"
  /\ \E style \in CaseType, tokens \in TokenArrays :
       /\ fn' = [kind |-> "wordsTo", name |-> style]
       /\ arg' = tokens
       /\ ret' = callWordsTo(style, tokens)
  /\ pc' = "returned"

CallCamelToWords ==
  /\ pc = "ready"
  /\ \E input \in AlnumInputs :
       /\ fn' = [kind |-> "toWords", name |-> camel]
       /\ arg' = input
       /\ ret' = callToWords(camel, input)
  /\ pc' = "returned"

CallPascalToWords ==
  /\ pc = "ready"
  /\ \E input \in AlnumInputs :
       /\ fn' = [kind |-> "toWords", name |-> pascal]
       /\ arg' = input
       /\ ret' = callToWords(pascal, input)
  /\ pc' = "returned"

\* the call returns; nothing of it is kept
Return ==
  /\ pc = "returned"
  /\ pc' = "ready"
  /\ fn' = NoCall
  /\ arg' = Undefined
  /\ ret' = Undefined

Next == CallConverter \/ CallToWords \/ CallWordsTo \/ Return

Spec == Init /\ [][Next]_vars

NextCamel == CallCamelToWords \/ CallPascalToWords \/ Return

SpecCamel == Init /\ [][NextCamel]_vars

----------------------------------------------------------------------------
(* Vocabulary of the properties.                                           *)

\* the documented name <source>To<TargetCapitalized> of a converter
Capitalized(style) ==
  CASE style = camel -> <<"C","a","m","e","l">>
    [] style = pascal -> <<"P","a","s","c","a","l">>
    [] style = snake -> <<"S","n","a","k","e">>
    [] style = screaming -> <<"S","c","r","e","a","m","i","n","g">>
    [] style = kebab -> <<"K","e","b","a","b">>
    [] style = dot -> <<"D","o","t">>
    [] style = path -> <<"P","a","t","h">>
    [] style = upper -> <<"U","p","p","e","r">>
    [] style = lower -> <<"L","o","w","e","r">>

ConverterNamed(from, to) == from \o <<"T", "o">> \o Capitalized(to)

StylePairs == CaseType \X CaseType

DocumentedNames == {ConverterNamed(p[1], p[2]) : p \in StylePairs}

\* the (source, target) pair a documented name stands for
PairNamed ==
  [n \in DocumentedNames |->
     CHOOSE p \in StylePairs : ConverterNamed(p[1], p[2]) = n]

\* all 81 documented names are exported, and nothing else is
AllPairsExported == exportedConverters = DocumentedNames

\* the converter of this pair has returned
ReturnedConverter(from, to) ==
  /\ pc = "returned"
  /\ fn.kind = "converter"
  /\ fn.name = ConverterNamed(from, to)

\* normalize(x): the string itself, the empty string for null and undefined
Normalized(x) == IF x.t = "string" THEN x.v ELSE <<>>

Returned(kind) == pc = "returned" /\ fn.kind = kind

IsString(x, s) == x.t = "string" /\ x.v = s

IsArray(x, a) == x.t = "array" /\ x.v = a

SeparatorStyles == {snake, screaming, kebab, dot, path}

FlatStyles == {upper, lower}

SeparatorOf(style) ==
  CASE style = snake -> "_"
    [] style = screaming -> "_"
    [] style = kebab -> "-"
    [] style = dot -> "."
    [] style = path -> "/"

Occurrences(s, c) == Cardinality({i \in DOMAIN s : s[i] = c})

\* tokenize with style S, then format with the same style S
SameStyleRoundTrip(style, x) == callWordsTo(style, callToWords(style, x))

----------------------------------------------------------------------------
(* C1: an identity converter <S>To<S> returns normalize(x): the input      *)
(* string verbatim, and the empty string for null and undefined.           *)

C1_IdentityReturnsNormalized ==
  /\ AllPairsExported
  /\ Returned("converter") /\ PairNamed[fn.name][1] = PairNamed[fn.name][2] =>
       IsString(ret, Normalized(arg))

\* snakeToSnake(" A") has returned: an input a tokenize/format trip changes
C1_Witness ==
  /\ ReturnedConverter(snake, snake)
  /\ IsString(arg, <<" ", "A">>)
  /\ IsString(ret, <<" ", "A">>)

(* C2: each of the 81 converters returns the empty string, and raises no   *)
(* error, when applied to null and when applied to undefined.              *)

C2_NullishConvertsToEmpty ==
  /\ AllPairsExported
  /\ Returned("converter") /\ arg.t \in {"null", "undefined"} =>
       IsString(ret, <<>>)

\* camelToSnake(null) has returned
C2_Witness ==
  /\ ReturnedConverter(camel, snake)
  /\ arg.t = "null"
  /\ IsString(ret, <<>>)

(* C3: every function of the public surface, the <style>ToWords tokenizers *)
(* and the wordsTo<Style> formatters included, raises no error on null or  *)
(* undefined and yields empty output: the empty string, or for a tokenizer *)
(* no token other than the empty string.                                   *)

C3_NullishNeverRaises ==
  pc = "returned" /\ arg.t \in {"null", "undefined"} =>
    /\ ret.t # "throw"
    /\ ret.t = "string" => ret.v = <<>>
    /\ ret.t = "array" => \A k \in DOMAIN ret.v : ret.v[k] = <<>>

(* C4: for a separator style S and a token sequence of any length, zero    *)
(* included, of lowercase alphanumeric tokens, <S>ToWords(wordsTo<S>(t))   *)
(* is t.                                                                   *)

C4_SeparatorRoundTripAnyLength ==
  Returned("wordsTo") /\ fn.name \in SeparatorStyles /\ arg.t = "array" =>
    IsArray(callToWords(fn.name, ret), arg.v)

(* C4 as amended: the same for a token sequence of one or more tokens.     *)

C4_SeparatorRoundTrip ==
  Returned("wordsTo") /\ fn.name \in SeparatorStyles
    /\ arg.t = "array" /\ Len(arg.v) >= 1 =>
      IsArray(callToWords(fn.name, ret), arg.v)

\* wordsToScreaming(["a1", "", "a"]) has returned "A1__A"
C4_Witness ==
  /\ Returned("wordsTo")
  /\ fn.name = screaming
  /\ IsArray(arg, << <<"a", "1">>, <<>>, <<"a">> >>)
  /\ IsString(ret, <<"A", "1", "_", "_", "A">>)

(* C5: for a non-empty sequence of non-empty lowercase-letter words,       *)
(* camelToSnake(wordsToCamel(words)) is wordsToSnake(words) and            *)
(* snakeToCamel(wordsToSnake(words)) is wordsToCamel(words).               *)

LetterWords(a) ==
  /\ Len(a) >= 1
  /\ \A k \in DOMAIN a : Len(a[k]) >= 1 /\ \A i \in DOMAIN a[k] : isLower(a[k][i])

CamelSnakeExact(words) ==
  /\ fn.name = camel =>
       IsString(callConverter(ConverterNamed(camel, snake), ret), toSnake(words))
  /\ fn.name = snake =>
       IsString(callConverter(ConverterNamed(snake, camel), ret), toCamel(words))

C5_CamelSnakeExactAllWords ==
  Returned("wordsTo") /\ fn.name \in {camel, snake}
    /\ arg.t = "array" /\ LetterWords(arg.v) =>
      CamelSnakeExact(arg.v)

(* C5 as amended: the same, provided no two adjacent words after the first *)
(* are both single letters.                                                *)

NoAdjacentSingleLetters(words) ==
  \A k \in 2..(Len(words) - 1) : ~(Len(words[k]) = 1 /\ Len(words[k + 1]) = 1)

C5_CamelSnakeExact ==
  Returned("wordsTo") /\ fn.name \in {camel, snake}
    /\ arg.t = "array" /\ LetterWords(arg.v) /\ NoAdjacentSingleLetters(arg.v) =>
      CamelSnakeExact(arg.v)

\* wordsToCamel(["a", "a", "aa"]) has returned "aAAa", whose acronym
\* boundary A|Aa the tokenizer has to find
C5_Witness ==
  /\ Returned("wordsTo")
  /\ fn.name = camel
  /\ IsArray(arg, << <<"a">>, <<"a">>, <<"a", "a">> >>)
  /\ IsString(ret, <<"a", "A", "A", "a">>)

(* C6: upperToWords and lowerToWords return exactly one token, the whole   *)
(* input lowercased, whatever separators, whitespace or case it holds;     *)
(* so a converter from upper or lower to snake, kebab, dot or path returns *)
(* a string with as many separators as its input has.                      *)

C6_FlatIsOneToken ==
  /\ Returned("toWords") /\ fn.name \in FlatStyles /\ arg.t = "string" =>
       IsArray(ret, <<toLowerCase(arg.v)>>)
  /\ Returned("converter") /\ arg.t = "string"
       /\ PairNamed[fn.name][1] \in FlatStyles
       /\ PairNamed[fn.name][2] \in {snake, kebab, dot, path} =>
         LET sep == SeparatorOf(PairNamed[fn.name][2])
         IN  /\ ret.t = "string"
             /\ Len(ret.v) = Len(arg.v)
             /\ Occurrences(ret.v, sep) = Occurrences(arg.v, sep)

\* upperToWords("A_") has returned the single token "a_"
C6_Witness ==
  /\ Returned("toWords")
  /\ fn.name = upper
  /\ IsString(arg, <<"A", "_">>)
  /\ IsArray(ret, << <<"a", "_">> >>)

(* C7: for each of the 9 styles S and every string x, with                 *)
(* f(x) = wordsTo<S>(<S>ToWords(x)), f(f(x)) = f(x).                       *)

IdempotentOn(style, tokens) ==
  LET fx == callWordsTo(style, tokens)
  IN  /\ fx.t = "string"
      /\ IsString(SameStyleRoundTrip(style, fx), fx.v)

CutsOf(x) ==
  {i \in 2..Len(x) :
     \/ (isLower(x[i - 1]) \/ isDigit(x[i - 1])) /\ isUpper(x[i])
     \/ /\ isUpper(x[i - 1]) /\ isUpper(x[i])
        /\ i + 1 <= Len(x) /\ isLower(x[i + 1])}

\* the k-th fragment of x cut before each position of cuts
Fragment(x, cuts, k) ==
  LET starts == {1} \cup cuts
      first == CHOOSE c \in starts : Cardinality({d \in starts : d < c}) = k - 1
      later == {d \in cuts : d > first}
      last == IF later = {} THEN Len(x)
              ELSE (CHOOSE c \in later : \A d \in later : c <= d) - 1
  IN  SubSeq(x, first, last)

FragmentsOf(x) ==
  [k \in 1..(Cardinality(CutsOf(x)) + 1) |-> toLowerCase(Fragment(x, CutsOf(x), k))]

C8_CamelCutsExactly ==
  Returned("toWords") /\ fn.name \in {camel, pascal} /\ arg.t = "string" =>
    IsArray(ret, FragmentsOf(arg.v))

\* camelToWords("aBABa") has returned ["a", "ba", "ba"]: the cuts a|B and
\* A|Ba of the two rules are adjacent to the fragment between them
C8_Witness ==
  /\ Returned("toWords")
  /\ fn.name = camel
  /\ IsString(arg, <<"a", "B", "A", "B", "a">>)
  /\ IsArray(ret, << <<"a">>, <<"b", "a">>, <<"b", "a">> >>)

(* C9: the early return of a converter on empty input changes no result:   *)
(* every tokenizer gives exactly one empty token on the empty string, and  *)
(* every formatter turns that sequence into the empty string, which is     *)
(* what the converter returns.                                             *)

C9_EarlyReturnChangesNothing ==
  /\ Returned("toWords") /\ Len(Normalized(arg)) = 0 =>
       /\ IsArray(ret, << <<>> >>)
       /\ tokenize(<<>>, fn.name) = ret.v
  /\ Returned("converter") /\ Len(Normalized(arg)) = 0 =>
       IsString(ret, format(tokenize(<<>>, PairNamed[fn.name][1]),
                            PairNamed[fn.name][2]))

\* pascalToWords("") has returned [""]
C9_Witness ==
  /\ Returned("toWords")
  /\ fn.name = pascal
  /\ IsString(arg, <<>>)
  /\ IsArray(ret, << <<>> >>)

(* C10: for distinct styles the export <from>To<To> is defined and, on a   *)
(* non-empty string x, returns wordsTo<To>(<from>ToWords(x)).              *)

C10_ConverterIsComposition ==
  /\ AllPairsExported
  /\ Returned("converter") /\ arg.t = "string" /\ Len(arg.v) > 0
       /\ PairNamed[fn.name][1] # PairNamed[fn.name][2] =>
         /\ ret.t = "string"
         /\ callWordsTo(PairNamed[fn.name][2],
                        callToWords(PairNamed[fn.name][1], arg)) = ret

\* screamingToPascal("A_a") has returned "AA"
C10_Witness ==
  /\ ReturnedConverter(screaming, pascal)
  /\ IsString(arg, <<"A", "_", "a">>)
  /\ IsString(ret, <<"A", "A">>)

====
